---- MODULE Spec2Model ----
(***************************************************************************)
(* Model of awesom/utilities.py: the numerical primitives of a             *)
(* self-organizing map (grid indexing, annealing schedules, best matching  *)
(* unit search, weight initialisers, PCA component selection, match        *)
(* distribution).  Every function of the module is stateless, so each one  *)
(* gets a specification of its own: the call draws the arguments from      *)
(* bounded sets and the following steps run the body.                      *)
(***************************************************************************)
EXTENDS Integers, Sequences, FiniteSets

VARIABLES
    grid_pc, grid_n_rows, grid_n_cols, grid_pos, grid_out,
    sched_pc, sched_kind, sched_start, sched_step, sched_stop,
    sched_coef, sched_stp, sched_out, sched_exc,
    bm_pc, bm_weights, bm_inp, bm_metric, bm_idx, bm_err,
    dist_pc, dist_bmu_idx, dist_n_units, dist_data_idx, unit_matches,
    pca_pc, pca_vals, pca_n_comps, pca_ord_idx, pca_out_vals,
    stm_pc, stm_dims, stm_alpha, stm_shape,
    sp_pc, sp_dims, sp_adapt, sp_data_min, sp_data_max, sp_vects, sp_mean,
    sp_points, sp_weights

gridVars  == <<grid_pc, grid_n_rows, grid_n_cols, grid_pos, grid_out>>
schedVars == <<sched_pc, sched_kind, sched_start, sched_step, sched_stop,
               sched_coef, sched_stp, sched_out, sched_exc>>
bmVars    == <<bm_pc, bm_weights, bm_inp, bm_metric, bm_idx, bm_err>>
distVars  == <<dist_pc, dist_bmu_idx, dist_n_units, dist_data_idx, unit_matches>>
pcaVars   == <<pca_pc, pca_vals, pca_n_comps, pca_ord_idx, pca_out_vals>>
stmVars   == <<stm_pc, stm_dims, stm_alpha, stm_shape>>
spVars    == <<sp_pc, sp_dims, sp_adapt, sp_data_min, sp_data_max, sp_vects,
               sp_mean, sp_points, sp_weights>>
vars      == <<gridVars, schedVars, bmVars, distVars, pcaVars, stmVars, spVars>>

(***************************************************************************)
(* Exact arithmetic.  The floats of the source are modelled as reduced     *)
(* fractions <<numerator, denominator>> with a positive denominator.       *)
(***************************************************************************)
Abs(n) == IF n < 0 THEN -n ELSE n

Min2(a, b) == IF a <= b THEN a ELSE b

RECURSIVE GCD(_, _)
GCD(a, b) == IF b = 0 THEN a ELSE GCD(b, a % b)

Frac(n, d) ==
    LET s == IF d < 0 THEN -1 ELSE 1
        g == GCD(Abs(n), Abs(d))
    IN  <<(s * n) \div g, (s * d) \div g>>

FracInt(n) == <<n, 1>>

FracAdd(a, b) == Frac(a[1] * b[2] + b[1] * a[2], a[2] * b[2])

FracSub(a, b) == Frac(a[1] * b[2] - b[1] * a[2], a[2] * b[2])

FracMul(a, b) == Frac(a[1] * b[1], a[2] * b[2])

FracDiv(a, b) == Frac(a[1] * b[2], a[2] * b[1])

FracLess(a, b) == a[1] * b[2] < b[1] * a[2]

(***************************************************************************)
(* The state of each function before it is called.                         *)
(***************************************************************************)
GridIdle ==
    /\ grid_pc = "idle" /\ grid_n_rows = 0 /\ grid_n_cols = 0
    /\ grid_pos = <<0, 0>> /\ grid_out = <<>>

SchedIdle ==
    /\ sched_pc = "idle" /\ sched_kind = "none"
    /\ sched_start = FracInt(0) /\ sched_stop = FracInt(0)
    /\ sched_step = [val |-> FracInt(0), isint |-> TRUE]
    /\ sched_coef = [kind |-> "unset", val |-> FracInt(0)] /\ sched_stp = 0
    /\ sched_out = <<>> /\ sched_exc = "none"

BmIdle ==
    /\ bm_pc = "idle" /\ bm_weights = [ndim |-> 0, val |-> <<>>]
    /\ bm_inp = [ndim |-> 0, val |-> <<>>] /\ bm_metric = "none"
    /\ bm_idx = <<>> /\ bm_err = <<>>

DistIdle ==
    /\ dist_pc = "idle" /\ dist_bmu_idx = <<>> /\ dist_n_units = 0
    /\ dist_data_idx = 0 /\ unit_matches = <<>>

PcaIdle ==
    /\ pca_pc = "idle" /\ pca_vals = <<>> /\ pca_n_comps = 0
    /\ pca_ord_idx = <<>> /\ pca_out_vals = <<>>

StmIdle ==
    /\ stm_pc = "idle" /\ stm_dims = <<0, 0, 0>> /\ stm_alpha = <<>>
    /\ stm_shape = <<0, 0>>

SpIdle ==
    /\ sp_pc = "idle" /\ sp_dims = <<0, 0, 0>> /\ sp_adapt = "unset"
    /\ sp_data_min = <<>> /\ sp_data_max = <<>> /\ sp_vects = <<>>
    /\ sp_mean = <<>> /\ sp_points = <<>> /\ sp_weights = <<>>

Init ==
    GridIdle /\ SchedIdle /\ BmIdle /\ DistIdle /\ PcaIdle /\ StmIdle /\ SpIdle

(***************************************************************************)
(* range(n): the indices 0 .. n-1 in increasing order.                     *)
(***************************************************************************)
range(n) == [i \in 1..(IF n > 0 THEN n ELSE 0) |-> i - 1]

(***************************************************************************)
(* GridIndexer: grid_iter and grid.                                        *)
(***************************************************************************)
MaxGridDim == 4

\* itertools.product(range(n_rows), range(n_cols)) is empty when a factor is.
product_empty(n_rows, n_cols) == n_rows = 0 \/ n_cols = 0

\* A successor that advances the leftmost index fastest (column-major).
product_succ_colmajor(pos, n_rows, n_cols) ==
    IF pos[1] + 1 < n_rows THEN <<pos[1] + 1, pos[2]>> ELSE <<0, pos[2] + 1>>

\* The successor of a pair: the rightmost index advances on every
\* step, the left one when the right one wraps.
product_succ(pos, n_rows, n_cols) ==
    IF pos[2] + 1 < n_cols THEN <<pos[1], pos[2] + 1>> ELSE <<pos[1] + 1, 0>>

product_done(pos, n_rows, n_cols) ==
    product_empty(n_rows, n_cols) \/ pos[1] >= n_rows \/ pos[2] >= n_cols

RECURSIVE product_rest(_, _, _)
product_rest(pos, n_rows, n_cols) ==
    IF product_done(pos, n_rows, n_cols) THEN <<>>
    ELSE <<pos>> \o product_rest(product_succ(pos, n_rows, n_cols), n_rows, n_cols)

\* grid_iter(n_rows, n_cols): the lazy iterator is created, nothing is
\* produced yet.
GridIterCall ==
    /\ grid_pc = "idle"
    /\ \E r \in 0..MaxGridDim, c \in 0..MaxGridDim :
          /\ grid_n_rows' = r
          /\ grid_n_cols' = c
    /\ grid_pos' = <<0, 0>>
    /\ grid_out' = <<>>
    /\ grid_pc' = "iter"
    /\ UNCHANGED <<schedVars, bmVars, distVars, pcaVars, stmVars, spVars>>

\* next() on the iterator: one pair, or exhaustion.
GridIterNext ==
    /\ grid_pc = "iter"
    /\ IF product_done(grid_pos, grid_n_rows, grid_n_cols)
       THEN /\ grid_pc' = "done"
            /\ UNCHANGED <<grid_pos, grid_out>>
       ELSE /\ grid_out' = Append(grid_out, grid_pos)
            /\ grid_pos' = product_succ(grid_pos, grid_n_rows, grid_n_cols)
            /\ grid_pc' = "iter"
    /\ UNCHANGED <<grid_n_rows, grid_n_cols>>
    /\ UNCHANGED <<schedVars, bmVars, distVars, pcaVars, stmVars, spVars>>

\* grid(n_rows, n_cols): the whole iterator materialised into an array.
Grid ==
    /\ grid_pc = "idle"
    /\ \E r \in 0..MaxGridDim, c \in 0..MaxGridDim :
          /\ grid_n_rows' = r
          /\ grid_n_cols' = c
          /\ grid_out' = product_rest(<<0, 0>>, r, c)
          /\ grid_pos' = IF product_empty(r, c) THEN <<0, 0>> ELSE <<r, 0>>
    /\ grid_pc' = "array"
    /\ UNCHANGED <<schedVars, bmVars, distVars, pcaVars, stmVars, spVars>>

NextGrid == GridIterCall \/ GridIterNext \/ Grid

SpecGrid == Init /\ [][NextGrid]_vars

\* C7: for n_rows, n_cols >= 1 the pairs produced so far are in row-major
\* order (pair i is (i // n_cols, i % n_cols)) and all distinct, and the
\* finished enumeration has n_rows*n_cols pairs, from (0,0) to
\* (n_rows-1, n_cols-1).
GridRowMajor ==
    (grid_pc # "idle" /\ grid_n_rows >= 1 /\ grid_n_cols >= 1) =>
        /\ \A k \in 1..Len(grid_out) :
              grid_out[k] = <<(k - 1) \div grid_n_cols, (k - 1) % grid_n_cols>>
        /\ \A k, l \in 1..Len(grid_out) : k # l => grid_out[k] # grid_out[l]
        /\ Len(grid_out) <= grid_n_rows * grid_n_cols
        /\ grid_pc \in {"done", "array"} =>
              /\ Len(grid_out) = grid_n_rows * grid_n_cols
              /\ grid_out[1] = <<0, 0>>
              /\ grid_out[Len(grid_out)] = <<grid_n_rows - 1, grid_n_cols - 1>>

GridRowMajorWitness ==
    /\ grid_pc \in {"done", "array"}
    /\ grid_n_rows = 2 /\ grid_n_cols = 3
    /\ Len(grid_out) = 6
    /\ grid_out[4] = <<1, 0>>

(***************************************************************************)
(* ScheduleGenerator: decrease_linear and decrease_expo.  Both are         *)
(* generator functions: the call only creates the generator, and the body  *)
(* (validation included) runs when the generator is resumed by next().     *)
(* A schedule value is a record: kind "num" holds the number val; kinds    *)
(* "pow2" and "negpow2" hold the numbers 2^val and -(2^val), the form in   *)
(* which start * exp(coef * stp) is exact for powers of two; "zero" and    *)
(* "nan" are the floats 0.0 and NaN.                                       *)
(***************************************************************************)
MaxStep == 4

\* start and stop: Python floats with integral values.
SchedVals == {-2, 0, 1, 2, 4, 8}

\* step: an int (isint), or a float such as 2.5 or 2.0.
SchedSteps ==
    {[val |-> FracInt(k), isint |-> TRUE] : k \in -1..MaxStep}
        \cup {[val |-> Frac(5, 2), isint |-> FALSE],
              [val |-> FracInt(2), isint |-> FALSE]}

Num(f) == [kind |-> "num", val |-> f]

NaN == [kind |-> "nan", val |-> FracInt(0)]

Zero == [kind |-> "zero", val |-> FracInt(0)]

RECURSIVE Log2(_)
Log2(n) == IF n <= 1 THEN 0 ELSE 1 + Log2(n \div 2)

\* step < 1 or not isinstance(step, int)
step_invalid(step) == FracLess(step.val, FracInt(1)) \/ ~step.isint

\* A coefficient that divides by step instead of step - 1.
linear_coef_offbyone(start, step, stop) ==
    Num(FracDiv(FracSub(stop, start), step.val))

\* coef = (stop - start) / (step - 1)
linear_coef(start, step, stop) ==
    Num(FracDiv(FracSub(stop, start), FracSub(step.val, FracInt(1))))

\* coef * stp + start
linear_value(coef, stp, start) ==
    Num(FracAdd(FracMul(coef.val, FracInt(stp)), start))

\* stop / start on Python floats raises ZeroDivisionError for start == 0.
expo_div_raises(start, stop) == start = FracInt(0)

\* coef = np.log(stop / start) / (step - 1), in units of ln 2: the log of 0
\* is -inf and the log of a negative quotient is NaN.
expo_coef(start, step, stop) ==
    IF stop = FracInt(0) THEN [kind |-> "neginf", val |-> FracInt(0)]
    ELSE IF FracLess(FracDiv(stop, start), FracInt(0)) THEN NaN
    ELSE Num(FracDiv(FracInt(Log2(Abs(stop[1])) - Log2(Abs(start[1]))),
                     FracSub(step.val, FracInt(1))))

\* start * np.exp(coef * stp)
expo_value(start, coef, stp) ==
    IF coef.kind = "nan" THEN NaN
    ELSE IF coef.kind = "neginf" THEN (IF stp = 0 THEN NaN ELSE Zero)
    ELSE [kind |-> IF start[1] < 0 THEN "negpow2" ELSE "pow2",
          val  |-> FracAdd(FracInt(Log2(Abs(start[1]))),
                           FracMul(coef.val, FracInt(stp)))]

\* A loop that stops one iteration early.
loop_range_short(step) == range(step.val[1] - 1)

\* for stp in range(step): the iterations of the loop.
loop_range(step) == range(step.val[1])

\* decrease_linear(start, step, stop) or decrease_expo(start, step, stop):
\* a generator object is returned, no line of the body has run.
ScheduleCall ==
    /\ sched_pc = "idle"
    /\ \E kind \in {"linear", "expo"}, a \in SchedVals, b \in SchedVals,
          step \in SchedSteps :
          /\ sched_kind' = kind
          /\ sched_start' = FracInt(a)
          /\ sched_stop' = FracInt(b)
          /\ sched_step' = step
    /\ sched_pc' = "created"
    /\ UNCHANGED <<sched_coef, sched_stp, sched_out, sched_exc>>
    /\ UNCHANGED <<gridVars, bmVars, distVars, pcaVars, stmVars, spVars>>

\* The first next(): the body runs from its first line to the first yield,
\* or to the exception that ends it.
ScheduleFirstNext ==
    /\ sched_pc = "created"
    /\ IF step_invalid(sched_step)
       THEN /\ sched_pc' = "raised"
            /\ sched_exc' = "ValueError"
            /\ UNCHANGED <<sched_coef, sched_stp, sched_out>>
       ELSE IF sched_step.val = FracInt(1)
       THEN /\ sched_out' = Append(sched_out, Num(sched_start))
            /\ sched_pc' = "yield_single"
            /\ UNCHANGED <<sched_coef, sched_stp, sched_exc>>
       ELSE IF sched_kind = "expo" /\ expo_div_raises(sched_start, sched_stop)
       THEN /\ sched_pc' = "raised"
            /\ sched_exc' = "ZeroDivisionError"
            /\ UNCHANGED <<sched_coef, sched_stp, sched_out>>
       ELSE LET coef == IF sched_kind = "linear"
                        THEN linear_coef(sched_start, sched_step, sched_stop)
                        ELSE expo_coef(sched_start, sched_step, sched_stop)
                rng  == loop_range(sched_step)
            IN  /\ sched_coef' = coef
                /\ IF Len(rng) = 0
                   THEN /\ sched_pc' = "done"
                        /\ UNCHANGED <<sched_stp, sched_out>>
                   ELSE /\ sched_stp' = rng[1]
                        /\ sched_out' = Append(sched_out,
                              IF sched_kind = "linear"
                              THEN linear_value(coef, rng[1], sched_start)
                              ELSE expo_value(sched_start, coef, rng[1]))
                        /\ sched_pc' = "yield_loop"
                /\ UNCHANGED sched_exc
    /\ UNCHANGED <<sched_kind, sched_start, sched_step, sched_stop>>
    /\ UNCHANGED <<gridVars, bmVars, distVars, pcaVars, stmVars, spVars>>

\* A later next(): the body resumes after the yield it is suspended at.
ScheduleNext ==
    /\ sched_pc \in {"yield_single", "yield_loop"}
    /\ IF sched_pc = "yield_single"
       THEN /\ sched_pc' = "done"
            /\ UNCHANGED <<sched_stp, sched_out>>
       ELSE LET rng == loop_range(sched_step)
                nxt == sched_stp + 2
            IN  IF nxt > Len(rng)
                THEN /\ sched_pc' = "done"
                     /\ UNCHANGED <<sched_stp, sched_out>>
                ELSE /\ sched_stp' = rng[nxt]
                     /\ sched_out' = Append(sched_out,
                           IF sched_kind = "linear"
                           THEN linear_value(sched_coef, rng[nxt], sched_start)
                           ELSE expo_value(sched_start, sched_coef, rng[nxt]))
                     /\ sched_pc' = "yield_loop"
    /\ UNCHANGED <<sched_kind, sched_start, sched_step, sched_stop,
                   sched_coef, sched_exc>>
    /\ UNCHANGED <<gridVars, bmVars, distVars, pcaVars, stmVars, spVars>>

NextSchedule == ScheduleCall \/ ScheduleFirstNext \/ ScheduleNext

SpecSchedule == Init /\ [][NextSchedule]_vars

\* The step of the call as an integer, when it is an int >= 1.
StepOk == sched_pc # "idle" /\ sched_step.isint /\ sched_step.val[1] >= 1

StepCount == sched_step.val[1]

SchedFinished == sched_pc \in {"done", "raised"}

\* C4 as stated: for every int step >= 1 both schedules end by exhaustion
\* after exactly step values, and step == 1 yields start alone.
ScheduleLengthAnyStart ==
    (StepOk /\ SchedFinished) =>
        /\ sched_pc = "done"
        /\ Len(sched_out) = StepCount
        /\ StepCount = 1 => sched_out = <<Num(sched_start)>>

\* C4 amended: the same, for decrease_linear with any start and for
\* decrease_expo when step == 1 or start is non-zero; no schedule ever
\* yields more than step values.
ScheduleLength ==
    StepOk =>
        /\ Len(sched_out) <= StepCount
        /\ (StepCount = 1 /\ Len(sched_out) >= 1) =>
              sched_out = <<Num(sched_start)>>
        /\ (SchedFinished /\ (sched_kind = "linear" \/ StepCount = 1
                                \/ sched_start # FracInt(0))) =>
              /\ sched_pc = "done"
              /\ Len(sched_out) = StepCount

ScheduleLengthWitness ==
    /\ sched_pc = "done" /\ sched_kind = "expo"
    /\ StepOk /\ StepCount = 4
    /\ sched_start = FracInt(8) /\ sched_stop = FracInt(1)
    /\ Len(sched_out) = 4
    /\ sched_out[4] = [kind |-> "pow2", val |-> FracInt(0)]

\* C5: decrease_linear with int step >= 2 and (stop - start) divisible by
\* (step - 1): value i is start + i*(stop-start)/(step-1); the first value
\* is start, the last one stop, the difference of consecutive values is
\* constant, and the values decrease when start > stop.
LinearDivisible ==
    /\ StepOk /\ StepCount >= 2 /\ sched_kind = "linear"
    /\ (sched_stop[1] - sched_start[1]) % (StepCount - 1) = 0

LinearDelta == (sched_stop[1] - sched_start[1]) \div (StepCount - 1)

LinearValues ==
    LinearDivisible =>
        /\ \A i \in 1..Len(sched_out) :
              sched_out[i] = Num(FracInt(sched_start[1] + (i - 1) * LinearDelta))
        /\ \A i \in 1..(Len(sched_out) - 1) :
              /\ sched_out[i + 1].val[1] - sched_out[i].val[1] = LinearDelta
              /\ sched_start[1] > sched_stop[1] =>
                    sched_out[i + 1].val[1] < sched_out[i].val[1]
        /\ Len(sched_out) >= 1 => sched_out[1] = Num(sched_start)
        /\ sched_pc = "done" => sched_out[Len(sched_out)] = Num(sched_stop)

LinearValuesWitness ==
    /\ LinearDivisible /\ sched_pc = "done"
    /\ sched_start = FracInt(8) /\ sched_stop = FracInt(2) /\ StepCount = 4
    /\ sched_out = <<Num(FracInt(8)), Num(FracInt(6)), Num(FracInt(4)),
                     Num(FracInt(2))>>

\* C6: a call with a step that is not an int >= 1 fails with ValueError at
\* the call itself, and no value is produced for it.
ScheduleRejectsAtCall ==
    (sched_pc # "idle" /\ step_invalid(sched_step)) =>
        /\ sched_pc = "raised"
        /\ sched_exc = "ValueError"
        /\ sched_out = <<>>

(***************************************************************************)
(* Distributor: distribute(bmu_idx, n_units).                              *)
(***************************************************************************)
MaxDistUnits == 3

MaxDistSamples == 3

SeqsUpTo(S, n) == UNION {[1..k -> S] : k \in 0..n}

\* A dict that lacks the key of the last unit.
dict_init_short(n_units) ==
    [i \in {range(n_units - 1)[k] : k \in DOMAIN range(n_units - 1)} |-> <<>>]

\* unit_matches = {i: [] for i in range(n_units)}
dict_init(n_units) ==
    [i \in {range(n_units)[k] : k \in DOMAIN range(n_units)} |-> <<>>]

\* An insertion at the head of the list.
list_prepend(matches, data_idx) == <<data_idx>> \o matches

\* unit_matches[bmu].append(data_idx)
list_append(matches, data_idx) == Append(matches, data_idx)

\* The call: the dict is built with one empty list per unit, and the loop
\* over enumerate(bmu_idx) is entered.
DistributeCall ==
    /\ dist_pc = "idle"
    /\ \E n \in 0..MaxDistUnits,
          b \in SeqsUpTo(0..(MaxDistUnits - 1), MaxDistSamples) :
          /\ dist_n_units' = n
          /\ dist_bmu_idx' = b
          /\ unit_matches' = dict_init(n)
    /\ dist_data_idx' = 0
    /\ dist_pc' = "loop"
    /\ UNCHANGED <<gridVars, schedVars, bmVars, pcaVars, stmVars, spVars>>

\* One iteration of the loop, or the return when bmu_idx is exhausted.  A
\* bmu that is no key of the dict raises KeyError.
DistributeStep ==
    /\ dist_pc = "loop"
    /\ IF dist_data_idx >= Len(dist_bmu_idx)
       THEN /\ dist_pc' = "done"
            /\ UNCHANGED <<dist_data_idx, unit_matches>>
       ELSE LET bmu == dist_bmu_idx[dist_data_idx + 1]
            IN  IF bmu \notin DOMAIN unit_matches
                THEN /\ dist_pc' = "raised"
                     /\ UNCHANGED <<dist_data_idx, unit_matches>>
                ELSE /\ unit_matches' =
                           [unit_matches EXCEPT
                               ![bmu] = list_append(@, dist_data_idx)]
                     /\ dist_data_idx' = dist_data_idx + 1
                     /\ dist_pc' = "loop"
    /\ UNCHANGED <<dist_bmu_idx, dist_n_units>>
    /\ UNCHANGED <<gridVars, schedVars, bmVars, pcaVars, stmVars, spVars>>

NextDistribute == DistributeCall \/ DistributeStep

SpecDistribute == Init /\ [][NextDistribute]_vars

BmuInRange ==
    \A i \in 1..Len(dist_bmu_idx) :
        dist_bmu_idx[i] >= 0 /\ dist_bmu_idx[i] < dist_n_units

\* C2: with every entry of bmu_idx in [0, n_units), the keys of the mapping
\* are exactly 0 .. n_units-1 at every step and in the returned mapping,
\* and a unit no sample is matched to is present with an empty list.
DistributeKeys ==
    (dist_pc # "idle" /\ BmuInRange) =>
        /\ DOMAIN unit_matches = 0..(dist_n_units - 1)
        /\ dist_pc = "done" =>
              \A u \in 0..(dist_n_units - 1) :
                  (\A i \in 1..Len(dist_bmu_idx) : dist_bmu_idx[i] # u) =>
                      unit_matches[u] = <<>>

DistributeKeysWitness ==
    /\ dist_pc = "done" /\ BmuInRange
    /\ dist_n_units = 3 /\ dist_bmu_idx = <<1, 1>>
    /\ unit_matches[0] = <<>> /\ unit_matches[2] = <<>>

\* C3: in the returned mapping every sample position i occurs exactly once,
\* in the list of unit bmu_idx[i], and every list is strictly increasing.
DistributeAssignment ==
    (dist_pc = "done" /\ BmuInRange) =>
        /\ \A i \in 0..(Len(dist_bmu_idx) - 1) :
              /\ Cardinality({uk \in (DOMAIN unit_matches) \X (1..Len(dist_bmu_idx)) :
                                 /\ uk[2] <= Len(unit_matches[uk[1]])
                                 /\ unit_matches[uk[1]][uk[2]] = i}) = 1
              /\ \E k \in 1..Len(unit_matches[dist_bmu_idx[i + 1]]) :
                    unit_matches[dist_bmu_idx[i + 1]][k] = i
        /\ \A u \in DOMAIN unit_matches :
              \A k \in 1..(Len(unit_matches[u]) - 1) :
                  unit_matches[u][k] < unit_matches[u][k + 1]

DistributeAssignmentWitness ==
    /\ dist_pc = "done"
    /\ dist_n_units = 3 /\ dist_bmu_idx = <<0, 2, 0>>
    /\ unit_matches[0] = <<0, 2>>
    /\ unit_matches[1] = <<>>
    /\ unit_matches[2] = <<1>>

(***************************************************************************)
(* BestMatchFinder: best_match(weights, inp, metric).  An array is a       *)
(* record of its number of dimensions and its nested rows.                 *)
(***************************************************************************)
MaxBmUnits == 2

MaxBmSamples == 2

BmVals == {0, 1}

BmFeatDims == {1, 2}

BmMetrics == {"cityblock", "chebyshev", "sqeuclidean"}

Vectors(f) == [1..f -> BmVals]

Matrices(r, f) == [1..r -> Vectors(f)]

\* The arrays of one number of dimensions: vectors, matrices of up to
\* rows rows, and three-dimensional arrays holding one one-row matrix.
Arrays(ndim, rows) ==
    IF ndim = 1
    THEN {[ndim |-> 1, val |-> v] : v \in UNION {Vectors(f) : f \in BmFeatDims}}
    ELSE IF ndim = 2
    THEN {[ndim |-> 2, val |-> m] :
             m \in UNION {Matrices(n, f) : n \in 1..rows, f \in BmFeatDims}}
    ELSE {[ndim |-> 3, val |-> <<m>>] :
             m \in UNION {Matrices(1, f) : f \in BmFeatDims}}

\* arr.shape[-1]
shape_last(arr) ==
    IF arr.ndim = 1 THEN Len(arr.val)
    ELSE IF arr.ndim = 2 THEN Len(arr.val[1])
    ELSE Len(arr.val[1][1])

\* np.atleast_2d(arr)
atleast_2d(arr) ==
    IF arr.ndim = 1 THEN [ndim |-> 2, val |-> <<arr.val>>] ELSE arr

RECURSIVE SumAbs(_, _, _)
SumAbs(x, y, i) ==
    IF i > Len(x) THEN 0 ELSE Abs(x[i] - y[i]) + SumAbs(x, y, i + 1)

RECURSIVE SumSq(_, _, _)
SumSq(x, y, i) ==
    IF i > Len(x) THEN 0
    ELSE (x[i] - y[i]) * (x[i] - y[i]) + SumSq(x, y, i + 1)

RECURSIVE MaxAbs(_, _, _)
MaxAbs(x, y, i) ==
    IF i > Len(x) THEN 0
    ELSE LET r == MaxAbs(x, y, i + 1)
         IN  IF Abs(x[i] - y[i]) > r THEN Abs(x[i] - y[i]) ELSE r

\* The distance of two vectors under a metric of scipy.spatial.distance.
metric_dist(x, y, metric) ==
    IF metric = "cityblock" THEN SumAbs(x, y, 1)
    ELSE IF metric = "chebyshev" THEN MaxAbs(x, y, 1)
    ELSE SumSq(x, y, 1)

\* distance.cdist(weights, inp, metric): entry [u][s] is the distance of
\* unit u to sample s.
cdist(weights, inp, metric) ==
    [u \in 1..Len(weights) |->
        [s \in 1..Len(inp) |-> metric_dist(weights[u], inp[s], metric)]]

column(dists, s) == [u \in 1..Len(dists) |-> dists[u][s]]

\* A scan that keeps the last occurrence of the minimum.
RECURSIVE argmin_scan_last(_, _, _)
argmin_scan_last(col, i, best) ==
    IF i > Len(col) THEN best - 1
    ELSE argmin_scan_last(col, i + 1, IF col[i] <= col[best] THEN i ELSE best)

\* argmin of a column: a scan in index order that keeps the first
\* occurrence of the minimum; the result is 0-based.
RECURSIVE argmin_scan(_, _, _)
argmin_scan(col, i, best) ==
    IF i > Len(col) THEN best - 1
    ELSE argmin_scan(col, i + 1, IF col[i] < col[best] THEN i ELSE best)

argmin_axis0_last(dists) ==
    [s \in 1..Len(dists[1]) |-> argmin_scan_last(column(dists, s), 2, 1)]

\* dists.argmin(axis=0)
argmin_axis0(dists) ==
    [s \in 1..Len(dists[1]) |-> argmin_scan(column(dists, s), 2, 1)]

RECURSIVE min_scan(_, _, _)
min_scan(col, i, m) ==
    IF i > Len(col) THEN m
    ELSE min_scan(col, i + 1, IF col[i] < m THEN col[i] ELSE m)

\* dists.min(axis=0)
min_axis0(dists) ==
    [s \in 1..Len(dists[1]) |-> LET col == column(dists, s)
                                IN  min_scan(col, 2, col[1])]

\* The three validations of best_match, in the order of the code.
best_match_raises(weights, inp) ==
    \/ weights.ndim # 2
    \/ shape_last(weights) # shape_last(inp)
    \/ atleast_2d(inp).ndim > 2

BestMatch ==
    /\ bm_pc = "idle"
    /\ \E wdim \in {1, 2}, xdim \in {1, 2, 3}, m \in BmMetrics :
       \E w \in Arrays(wdim, MaxBmUnits), x \in Arrays(xdim, MaxBmSamples) :
          /\ bm_weights' = w
          /\ bm_inp' = x
          /\ bm_metric' = m
          /\ IF best_match_raises(w, x)
             THEN /\ bm_pc' = "raised"
                  /\ UNCHANGED <<bm_idx, bm_err>>
             ELSE LET dists == cdist(w.val, atleast_2d(x).val, m)
                  IN  /\ bm_idx' = argmin_axis0(dists)
                      /\ bm_err' = min_axis0(dists)
                      /\ bm_pc' = "done"
    /\ UNCHANGED <<gridVars, schedVars, distVars, pcaVars, stmVars, spVars>>

NextBestMatch == BestMatch

SpecBestMatch == Init /\ [][NextBestMatch]_vars

BmSamples == atleast_2d(bm_inp).val

BmDist(u, s) == metric_dist(bm_weights.val[u], BmSamples[s], bm_metric)

\* C1: for every sample the returned error is the minimal distance over the
\* units and the returned index is the lowest index of a unit at that
\* distance.
BestMatchLowestIndex ==
    bm_pc = "done" =>
        /\ Len(bm_idx) = Len(BmSamples)
        /\ Len(bm_err) = Len(BmSamples)
        /\ \A s \in 1..Len(BmSamples) :
              /\ bm_idx[s] \in 0..(Len(bm_weights.val) - 1)
              /\ BmDist(bm_idx[s] + 1, s) = bm_err[s]
              /\ \A u \in 1..Len(bm_weights.val) : BmDist(u, s) >= bm_err[s]
              /\ \A u \in 1..bm_idx[s] : BmDist(u, s) > bm_err[s]

BestMatchLowestIndexWitness ==
    /\ bm_pc = "done"
    /\ bm_weights = [ndim |-> 2, val |-> <<<<0, 0>>, <<0, 0>>>>]
    /\ bm_inp = [ndim |-> 2, val |-> <<<<0, 0>>>>]
    /\ bm_idx = <<0>>
    /\ bm_err = <<0>>

(***************************************************************************)
(* PCAComputer: the component selection of pca(data, n_comps).  The        *)
(* singular value decomposition is a library service: its result is drawn  *)
(* from the sequences it can return, singular values in non-increasing     *)
(* order, and a component is identified by its index in that order.        *)
(***************************************************************************)
MaxPcaLen == 3

PcaVals == {0, 1, 2, 3}

PcaComps == {1, 2, 3}

\* _, vals, vects = np.linalg.svd(data_centered)
svd_vals ==
    {v \in UNION {[1..k -> PcaVals] : k \in 1..MaxPcaLen} :
        \A i \in 1..(Len(v) - 1) : v[i] >= v[i + 1]}

Perms(n) ==
    {p \in [1..n -> 0..(n - 1)] : \A i, j \in 1..n : i # j => p[i] # p[j]}

\* vals.argsort(): the default sort kind is not stable, so any index order
\* that sorts the values in ascending order can be returned.
argsort(vals) ==
    {p \in Perms(Len(vals)) :
        \A i, j \in 1..Len(vals) : i < j => vals[p[i] + 1] <= vals[p[j] + 1]}

\* A flip that leaves the ascending order as it is.
flip_noop(seq) == seq

\* np.flip(seq)
flip(seq) == [i \in 1..Len(seq) |-> seq[Len(seq) + 1 - i]]

\* seq[:n]
take(seq, n) == SubSeq(seq, 1, Min2(n, Len(seq)))

\* The data is centred and decomposed.
PcaSvd ==
    /\ pca_pc = "idle"
    /\ \E v \in svd_vals, n \in PcaComps :
          /\ pca_vals' = v
          /\ pca_n_comps' = n
    /\ pca_pc' = "svd"
    /\ UNCHANGED <<pca_ord_idx, pca_out_vals>>
    /\ UNCHANGED <<gridVars, schedVars, bmVars, distVars, stmVars, spVars>>

\* ord_idx = np.flip(vals.argsort())[:n_comps]; vals = vals[ord_idx];
\* vects = vects[ord_idx]
PcaSelect ==
    /\ pca_pc = "svd"
    /\ \E p \in argsort(pca_vals) :
          LET ord_idx == take(flip(p), pca_n_comps)
          IN  /\ pca_ord_idx' = ord_idx
              /\ pca_out_vals' = [i \in 1..Len(ord_idx) |-> pca_vals[ord_idx[i] + 1]]
    /\ pca_pc' = "done"
    /\ UNCHANGED <<pca_vals, pca_n_comps>>
    /\ UNCHANGED <<gridVars, schedVars, bmVars, distVars, stmVars, spVars>>

NextPca == PcaSvd \/ PcaSelect

SpecPca == Init /\ [][NextPca]_vars

\* The selection takes n_comps components (all of them when there are
\* fewer), each once, and no component left out has a larger singular
\* value than a selected one.
PcaSelectsLargest ==
    /\ Len(pca_ord_idx) = Min2(pca_n_comps, Len(pca_vals))
    /\ \A i \in 1..Len(pca_ord_idx) :
          /\ pca_ord_idx[i] \in 0..(Len(pca_vals) - 1)
          /\ pca_out_vals[i] = pca_vals[pca_ord_idx[i] + 1]
    /\ \A i, j \in 1..Len(pca_ord_idx) : i # j => pca_ord_idx[i] # pca_ord_idx[j]
    /\ \A k \in 0..(Len(pca_vals) - 1) :
          (\A i \in 1..Len(pca_ord_idx) : pca_ord_idx[i] # k) =>
              \A i \in 1..Len(pca_ord_idx) : pca_vals[k + 1] <= pca_out_vals[i]

\* C8 as stated: the n_comps largest singular values in descending order,
\* components of equal singular value in their native order.
PcaStableDescending ==
    pca_pc = "done" =>
        /\ PcaSelectsLargest
        /\ \A i, j \in 1..Len(pca_ord_idx) :
              i < j =>
                 \/ pca_out_vals[i] > pca_out_vals[j]
                 \/ /\ pca_out_vals[i] = pca_out_vals[j]
                    /\ pca_ord_idx[i] < pca_ord_idx[j]

\* C8 amended: the n_comps largest singular values in non-increasing order;
\* the order of components of equal singular value is not fixed.
PcaLargestDescending ==
    pca_pc = "done" =>
        /\ PcaSelectsLargest
        /\ \A i, j \in 1..Len(pca_ord_idx) :
              i < j => pca_out_vals[i] >= pca_out_vals[j]

PcaLargestDescendingWitness ==
    /\ pca_pc = "done"
    /\ pca_vals = <<2, 2, 1>> /\ pca_n_comps = 2
    /\ pca_ord_idx = <<1, 0>>
    /\ pca_out_vals = <<2, 2>>

(***************************************************************************)
(* WeightInitializer 'stm': sample_stm(dims).  The Dirichlet sampler is a  *)
(* library service; the model keeps what the code hands to it: the         *)
(* concentration vector of every state, and the shape of the result.       *)
(***************************************************************************)
MaxStmDim == 2

MaxStmFeats == 5

\* np.random.randint(1, 10, ...) draws from AlphaLow .. AlphaHigh - 1.
AlphaLow == 1

AlphaHigh == 10

\* int(np.sqrt(n_feats))
int_sqrt(n) == CHOOSE k \in 0..n : k * k <= n /\ n < (k + 1) * (k + 1)

\* bool(n_states - int(n_states)): the square root has a fractional part.
not_square(n_feats) == int_sqrt(n_feats) * int_sqrt(n_feats) # n_feats

\* alpha = np.random.randint(1, 10, (n_states, n_states))
alpha_draws(n_states) ==
    [1..n_states -> [1..n_states -> AlphaLow..(AlphaHigh - 1)]]

\* np.hstack of one (n_units, n_states) block per row of alpha.
hstack_shape(n_units, n_states, alpha) == <<n_units, Len(alpha) * n_states>>

SampleStm ==
    /\ stm_pc = "idle"
    /\ \E n_rows \in 1..MaxStmDim, n_cols \in 1..MaxStmDim,
          n_feats \in 1..MaxStmFeats :
          /\ stm_dims' = <<n_rows, n_cols, n_feats>>
          /\ IF not_square(n_feats)
             THEN /\ stm_pc' = "raised"
                  /\ UNCHANGED <<stm_alpha, stm_shape>>
             ELSE \E alpha \in alpha_draws(int_sqrt(n_feats)) :
                     /\ stm_alpha' = alpha
                     /\ stm_shape' = hstack_shape(n_rows * n_cols,
                                                  int_sqrt(n_feats), alpha)
                     /\ stm_pc' = "done"
    /\ UNCHANGED <<gridVars, schedVars, bmVars, distVars, pcaVars, spVars>>

NextStm == SampleStm

SpecStm == Init /\ [][NextStm]_vars

\* C9: in the concentration vector of every state k the k-th (diagonal)
\* component is larger than every other component.
StmDiagonalReinforced ==
    stm_pc = "done" =>
        \A k \in 1..Len(stm_alpha) :
            \A j \in 1..Len(stm_alpha[k]) :
                j # k => stm_alpha[k][k] > stm_alpha[k][j]

(***************************************************************************)
(* WeightInitializer 'pca': sample_pca(dims, data, adapt).  pca(data, 2)   *)
(* is drawn from a set of results: the range of the projected data on the  *)
(* two components, the component vectors and the data mean.                *)
(***************************************************************************)
MaxSpDim == 3

\* (min, max) of the projected data on one component.
SpRanges == {<<0, 2>>, <<-3, 3>>}

SpVects == {<<<<1, 0>>, <<0, 1>>>>, <<<<0, 1>>, <<-1, 0>>>>}

SpMeans == {<<0, 0>>, <<5, 7>>}

SpAdapt == {"unset", "true", "false"}

\* "adapt" in kwargs and kwargs['adapt'] is True
lattice_shape(n_rows, n_cols, adapt) ==
    IF adapt = "true"
    THEN (IF n_rows >= n_cols THEN <<n_rows, n_cols>> ELSE <<n_cols, n_rows>>)
    ELSE <<n_rows, n_cols>>

\* np.linspace(start, stop, num)
linspace(start, stop, num) ==
    [i \in 1..num |->
        IF num = 1 THEN FracInt(start)
        ELSE FracAdd(FracInt(start), Frac((i - 1) * (stop - start), num - 1))]

\* np.meshgrid(x, y) with the default 'xy' indexing: two arrays of shape
\* (len(y), len(x)).
meshgrid_x(x, y) == [i \in 1..Len(y) |-> [j \in 1..Len(x) |-> x[j]]]

meshgrid_y(x, y) == [i \in 1..Len(y) |-> [j \in 1..Len(x) |-> y[i]]]

\* arr.ravel(): the rows of a two-dimensional array one after the other.
ravel(arr) ==
    IF Len(arr) = 0 THEN <<>>
    ELSE [k \in 1..(Len(arr) * Len(arr[1])) |->
             arr[((k - 1) \div Len(arr[1])) + 1][((k - 1) % Len(arr[1])) + 1]]

\* One row of points.T @ vects + data.mean(axis=0)
weight_row(point, vects, mean) ==
    [f \in 1..Len(mean) |->
        FracAdd(FracAdd(FracMul(point[1], FracInt(vects[1][f])),
                        FracMul(point[2], FracInt(vects[2][f]))),
                FracInt(mean[f]))]

SamplePca ==
    /\ sp_pc = "idle"
    /\ \E n_rows \in 1..MaxSpDim, n_cols \in 1..MaxSpDim, adapt \in SpAdapt,
          r0 \in SpRanges, r1 \in SpRanges, vects \in SpVects, mean \in SpMeans :
          LET shape  == lattice_shape(n_rows, n_cols, adapt)
              dim_x  == linspace(r0[1], r0[2], shape[1])
              dim_y  == linspace(r1[1], r1[2], shape[2])
              grid_x == ravel(meshgrid_x(dim_x, dim_y))
              grid_y == ravel(meshgrid_y(dim_x, dim_y))
              points == [k \in 1..Len(grid_x) |-> <<grid_x[k], grid_y[k]>>]
          IN  /\ sp_dims' = <<n_rows, n_cols, Len(mean)>>
              /\ sp_adapt' = adapt
              /\ sp_data_min' = <<r0[1], r1[1]>>
              /\ sp_data_max' = <<r0[2], r1[2]>>
              /\ sp_vects' = vects
              /\ sp_mean' = mean
              /\ sp_points' = points
              /\ sp_weights' = [k \in 1..Len(points) |->
                                   weight_row(points[k], vects, mean)]
    /\ sp_pc' = "done"
    /\ UNCHANGED <<gridVars, schedVars, bmVars, distVars, pcaVars, stmVars>>

NextSamplePca == SamplePca

SpecSamplePca == Init /\ [][NextSamplePca]_vars

\* The lattice point of the grid cell with row-major index i: the
\* (i // n_cols)-th of the n_rows values on the first component and the
\* (i % n_cols)-th of the n_cols values on the second one.
RowMajorPoint(i) ==
    <<linspace(sp_data_min[1], sp_data_max[1], sp_dims[1])[(i \div sp_dims[2]) + 1],
      linspace(sp_data_min[2], sp_data_max[2], sp_dims[2])[(i % sp_dims[2]) + 1]>>

\* C10: with adapt unset the result has n_rows*n_cols rows and row i is
\* built from the lattice point of the grid cell with row-major index i.
SamplePcaRowMajor ==
    (sp_pc = "done" /\ sp_adapt = "unset") =>
        /\ Len(sp_weights) = sp_dims[1] * sp_dims[2]
        /\ \A i \in 0..(Len(sp_weights) - 1) :
              /\ sp_points[i + 1] = RowMajorPoint(i)
              /\ sp_weights[i + 1] = weight_row(RowMajorPoint(i), sp_vects, sp_mean)

====
